---- MODULE Spec2Model ----
(***************************************************************************)
(* nightlog: the shared data-access crate (nightlog-common) and the add /  *)
(* get / list Lambda handlers, over one MongoDB collection of Log          *)
(* documents.  The collection is the set of BSON documents the store       *)
(* holds; every operation of lib.rs is one atomic round trip to it.        *)
(***************************************************************************)
EXTENDS Integers, Sequences, FiniteSets, TLC

\* ---------------------------------------------------------------- bounds
\* capacity of the collection in the model
MaxDocs == 2
\* number of distinct ObjectId values
MaxOid == 2
\* clock ticks per whole second (chrono keeps sub-second precision)
SubSec == 2

\* ---------------------------------------------------------------- values
\* Option::<ObjectId>::None, serialized as BSON null
NoId == 0

Oids == 1..MaxOid

Ids == Oids \cup {NoId}

Users == {"u1", "u2"}

\* instants Utc::now() may return, in ticks: 1 is not a whole second
Times == {1, SubSec}

Observations ==
  { [object_name |-> "M31", object_location |-> "Andromeda",
     equipment |-> "Dobson 254/1250", eyepiece |-> "25mm",
     notes |-> "beautiful, even with a bad seeing"],
    [object_name |-> " M1 ", object_location |-> "Taurus",
     equipment |-> "Dobson 254/1200", eyepiece |-> "10mm",
     notes |-> ""] }

\* struct ObservationRequest
ObservationRequest ==
  { [user_id |-> u, object_name |-> o.object_name,
     object_location |-> o.object_location, equipment |-> o.equipment,
     eyepiece |-> o.eyepiece, notes |-> o.notes] :
      u \in Users, o \in Observations }

\* struct Log, in memory: date in ticks
Log == [_id : Ids, user_id : Users, date : Times, observation : Observations]

\* the three required settings and the values the environment gives them
Settings == {"DATABASE_URL", "DATABASE_NAME", "DATABASE_COLLECTION"}

EnvValue(s) == "value of " \o s

VARIABLES
  coll,      \* the collection: set of stored BSON documents
  prev,      \* the collection as it was before the last operation
  env,       \* settings present in the environment (after .env is merged)
  lazy,      \* state of the CONFIG cell: "uninit", "running", "ready", "poisoned"
  cfg,       \* the value of the CONFIG cell
  envReads,  \* how many times the CONFIG closure has run
  last,      \* the last operation: its arguments and what it returned
  pc,        \* concurrent callers of one process: where each one is
  seen       \* the Config each caller got from CONFIG

dbvars == <<coll, prev, last>>

cfgvars == <<env, lazy, cfg, envReads>>

callers == <<pc, seen>>

vars == <<coll, prev, env, lazy, cfg, envReads, last, pc, seen>>

\* ------------------------------------------------------------ schema
\* Observation::new
Observation_new(object_name, object_location, equipment, eyepiece, notes) ==
  [object_name |-> object_name, object_location |-> object_location,
   equipment |-> equipment, eyepiece |-> eyepiece, notes |-> notes]

\* Observation::from_request with two arguments in each other's place
Observation_from_request_swapped(req) ==
  Observation_new(req.object_name, req.object_location, req.eyepiece,
                  req.equipment, req.notes)

\* Observation::from_request
Observation_from_request(req) ==
  Observation_new(req.object_name, req.object_location, req.equipment,
                  req.eyepiece, req.notes)

\* Log::new: oid is what ObjectId::new() returns, now what Utc::now() returns
Log_new(user_id, observation, oid, now) ==
  [_id |-> oid, user_id |-> user_id, date |-> now, observation |-> observation]

\* Log::from_observation_request
Log_from_observation_request(req, oid, now) ==
  Log_new(req.user_id, Observation_from_request(req), oid, now)

\* #[serde(with = "chrono::serde::ts_seconds")]: a date is written as whole seconds
ts_seconds_serialize(date) == date \div SubSec

\* ts_seconds on the way back: whole seconds become an instant
ts_seconds_deserialize(secs) == secs * SubSec

\* Serialize for Log with two Observation fields written under each other's key
LogToDoc_swapped(log) ==
  [_id |-> log._id, user_id |-> log.user_id,
   date |-> ts_seconds_serialize(log.date),
   observation |-> [log.observation EXCEPT
                      !.object_name = log.observation.object_location,
                      !.object_location = log.observation.object_name]]

\* Serialize for Log: the document the driver sends to the store
LogToDoc(log) ==
  [_id |-> log._id, user_id |-> log.user_id,
   date |-> ts_seconds_serialize(log.date), observation |-> log.observation]

\* Deserialize for Log: Collection<Log> decodes what the store returns
DocToLog(d) ==
  [_id |-> d._id, user_id |-> d.user_id,
   date |-> ts_seconds_deserialize(d.date), observation |-> d.observation]

\* ------------------------------------------------------------- results
\* Result::Err(mongodb::error::Error), and lambda_runtime::Error at a handler
Err == [tag |-> "Err"]

\* the .expect() of the CONFIG closure, or a poisoned Lazy: the call panics
Panic == [tag |-> "Panic"]

Ok(v) == [tag |-> "Ok", val |-> v]

\* Option<Log>
None == [tag |-> "None"]

Some(l) == [tag |-> "Some", log |-> l]

\* ------------------------------------------------------------ the store
\* doc! {"_id": .., "user_id": ..}: a document matches when every key agrees
Matching(c, filter) == {d \in c : \A k \in DOMAIN filter : d[k] = filter[k]}

\* insert_one into a collection without the unique _id index
insert_one_no_index(c, d) == [coll |-> c \cup {d}, res |-> Ok(d._id)]

\* Collection::insert_one: the _id index is unique; inserted_id is the _id sent
insert_one(c, d) ==
  IF \E e \in c : e._id = d._id
    THEN [coll |-> c, res |-> Err]
    ELSE [coll |-> c \cup {d}, res |-> Ok(d._id)]

\* Collection::find_one
find_one(c, filter) ==
  IF Matching(c, filter) = {}
    THEN [coll |-> c, res |-> Ok(None)]
    ELSE [coll |-> c,
          res |-> Ok(Some(DocToLog(CHOOSE d \in Matching(c, filter) : TRUE)))]

\* replace_one with the upsert option set
replace_one_upsert(c, filter, r) ==
  IF Matching(c, filter) = {}
    THEN [coll |-> c \cup {r},
          res |-> Ok([matched_count |-> 0, modified_count |-> 0])]
    ELSE LET d == CHOOSE e \in Matching(c, filter) : TRUE
         IN  [coll |-> (c \ {d}) \cup {r},
              res |-> Ok([matched_count |-> 1,
                          modified_count |-> IF r = d THEN 0 ELSE 1])]

\* Collection::replace_one, no upsert option: UpdateResult counts; a replacement
\* equal to the stored document is matched but not modified
replace_one(c, filter, r) ==
  IF Matching(c, filter) = {}
    THEN [coll |-> c, res |-> Ok([matched_count |-> 0, modified_count |-> 0])]
    ELSE LET d == CHOOSE e \in Matching(c, filter) : TRUE
         IN  [coll |-> (c \ {d}) \cup {r},
              res |-> Ok([matched_count |-> 1,
                          modified_count |-> IF r = d THEN 0 ELSE 1])]

\* delete_one that reports the match and removes nothing
delete_one_kept(c, filter) ==
  IF Matching(c, filter) = {}
    THEN [coll |-> c, res |-> Ok([deleted_count |-> 0])]
    ELSE [coll |-> c, res |-> Ok([deleted_count |-> 1])]

\* Collection::delete_one: DeleteResult count
delete_one(c, filter) ==
  IF Matching(c, filter) = {}
    THEN [coll |-> c, res |-> Ok([deleted_count |-> 0])]
    ELSE LET d == CHOOSE e \in Matching(c, filter) : TRUE
         IN  [coll |-> c \ {d}, res |-> Ok([deleted_count |-> 1])]

\* the orders in which a cursor may yield the documents of S (store-determined)
Orderings(S) ==
  {s \in [1..Cardinality(S) -> S] : \A i, j \in DOMAIN s : i # j => s[i] # s[j]}

\* Cursor<Log>: each document yielded is decoded as a Log
DocsToLogs(s) == [i \in DOMAIN s |-> DocToLog(s[i])]

\* Collection::find: the streams a Cursor<Log> over the matching documents can
\* be: the documents in some order, or a prefix of them ended by an error
find(c, filter) ==
  LET M == Matching(c, filter)
  IN  { x \in { [items |-> DocsToLogs(SubSeq(s, 1, n)), err |-> e] :
                  s \in Orderings(M), n \in 0..Cardinality(M), e \in BOOLEAN } :
          ~x.err => Len(x.items) = Cardinality(M) }

\* ------------------------------------------------- data access (lib.rs)
\* log_insertion
log_insertion(c, log) ==
  LET r == insert_one(c, LogToDoc(log))
  IN  [coll |-> r.coll,
       res |-> IF r.res.tag = "Err" THEN Err
               ELSE Ok(IF r.res.val \in Oids THEN r.res.val ELSE NoId)]

\* log_retrieval
log_retrieval(c, log_req) ==
  find_one(c, [_id |-> log_req.log_id, user_id |-> log_req.user_id])

\* log_replacement as an update of the Observation that keeps the stored date
log_replacement_keep_date(c, log) ==
  LET filter == [_id |-> log._id, user_id |-> log.user_id]
  IN  IF Matching(c, filter) = {}
        THEN replace_one(c, filter, LogToDoc(log))
        ELSE replace_one(c, filter,
               [LogToDoc(log) EXCEPT
                  !.date = (CHOOSE e \in Matching(c, filter) : TRUE).date])

\* log_replacement with a filter on the identifier alone
log_replacement_any_owner(c, log) ==
  replace_one(c, [_id |-> log._id], LogToDoc(log))

\* log_replacement
log_replacement(c, log) ==
  replace_one(c, [_id |-> log._id, user_id |-> log.user_id], LogToDoc(log))

\* log_listing with an empty filter
log_listing_unscoped(c, list_req) == find(c, [k \in {} |-> k])

\* log_listing: the cursors the call may return
log_listing(c, list_req) == find(c, [user_id |-> list_req.user_id])

\* log_deletion with a filter on the identifier alone
log_deletion_any_owner(c, log_req) == delete_one(c, [_id |-> log_req.log_id])

\* log_deletion
log_deletion(c, log_req) ==
  delete_one(c, [_id |-> log_req.log_id, user_id |-> log_req.user_id])

\* TryStreamExt::try_collect::<Vec<Log>>
try_collect(cursor) == IF cursor.err THEN Err ELSE Ok(cursor.items)

\* --------------------------------------------------------- configuration
\* the CONFIG closure: Config from the three settings, or the panic of expect()
LoadConfig(e) ==
  IF Settings \subseteq e THEN Ok([s \in Settings |-> EnvValue(s)]) ELSE Panic

\* the cell before the closure has stored a value
NoConfig == [s \in Settings |-> "unset"]

\* Lazy::force(&CONFIG), whole: the cell after the call
ForcedCell(cell, e) ==
  IF cell = "uninit"
    THEN (IF LoadConfig(e).tag = "Ok" THEN "ready" ELSE "poisoned")
    ELSE cell

\* init(), and every deref of CONFIG: runs the closure only on an empty cell
init ==
  /\ lazy' = ForcedCell(lazy, env)
  /\ cfg' = IF lazy = "uninit" /\ LoadConfig(env).tag = "Ok"
              THEN LoadConfig(env).val ELSE cfg
  /\ envReads' = IF lazy = "uninit" THEN envReads + 1 ELSE envReads
  /\ UNCHANGED env

\* an operation's outcome: panics without configuration, fails when the store
\* cannot be reached, otherwise what the store answers
Outcome(cell, fail, r) ==
  IF cell # "ready" THEN [coll |-> coll, res |-> Panic]
  ELSE IF fail THEN [coll |-> coll, res |-> Err]
  ELSE r

Record(rec, c) ==
  /\ last' = rec
  /\ coll' = c
  /\ prev' = coll

\* one invocation (or library call) at a time: the previous outcome was taken
Idle == last.op = "none"

\* ------------------------------------------------- library operations
LogInsertion(log, fail) ==
  /\ Idle
  /\ Cardinality(coll) < MaxDocs
  /\ init
  /\ LET r == Outcome(lazy', fail, log_insertion(coll, log))
     IN  Record([op |-> "log_insertion", log |-> log, fail |-> fail, res |-> r.res], r.coll)

LogRetrieval(log_req, fail) ==
  /\ Idle
  /\ init
  /\ LET r == Outcome(lazy', fail, log_retrieval(coll, log_req))
     IN  Record([op |-> "log_retrieval", req |-> log_req, fail |-> fail, res |-> r.res], r.coll)

LogReplacement(log, fail) ==
  /\ Idle
  /\ init
  /\ LET r == Outcome(lazy', fail, log_replacement(coll, log))
     IN  Record([op |-> "log_replacement", log |-> log, fail |-> fail, res |-> r.res], r.coll)

LogDeletion(log_req, fail) ==
  /\ Idle
  /\ init
  /\ LET r == Outcome(lazy', fail, log_deletion(coll, log_req))
     IN  Record([op |-> "log_deletion", req |-> log_req, fail |-> fail, res |-> r.res], r.coll)

\* log_listing, then try_collect on the cursor as the callers do
LogListing(list_req, fail) ==
  /\ Idle
  /\ init
  /\ \E cursor \in log_listing(coll, list_req) :
       LET r == Outcome(lazy', fail, [coll |-> coll, res |-> Ok(cursor)])
       IN  Record([op |-> "log_listing", req |-> list_req, fail |-> fail,
                   res |-> r.res,
                   list |-> IF r.res.tag = "Ok" THEN try_collect(r.res.val)
                            ELSE r.res], r.coll)

\* Log::from_observation_request called on its own (tests::log_creation_test)
LogCreation(req, oid, now) ==
  /\ Idle
  /\ last' = [op |-> "create", req |-> req,
              log |-> Log_from_observation_request(req, oid, now)]
  /\ prev' = coll
  /\ UNCHANGED <<coll, cfgvars>>

\* ------------------------------------------------------------ handlers
\* serde_json::to_string(&ObjectId): extended JSON {"$oid": ..}
ObjectIdJson(id) == [k \in {"$oid"} |-> id]

JsonNull == [k \in {} |-> k]

\* serde_json::to_string(&Log)
LogJson(log) ==
  [_id |-> IF log._id = NoId THEN JsonNull ELSE ObjectIdJson(log._id),
   user_id |-> log.user_id, date |-> ts_seconds_serialize(log.date),
   observation |-> log.observation]

Response(body) == Ok([statusCode |-> 200, body |-> body])

\* nightlog-add function_handler, after log_insertion returned res
AddResponse(res) ==
  IF res.tag # "Ok" THEN res
  ELSE IF res.val = NoId THEN Err
  ELSE Response(ObjectIdJson(res.val))

\* the get handler answering not-found with a 200 envelope and a null body
GetResponse_null_body(res) ==
  IF res.tag # "Ok" THEN res
  ELSE IF res.val.tag = "None" THEN Response(JsonNull)
  ELSE Response(LogJson(res.val.log))

\* nightlog-get function_handler, after log_retrieval returned res
GetResponse(res) ==
  IF res.tag # "Ok" THEN res
  ELSE IF res.val.tag = "None" THEN Err
  ELSE Response(LogJson(res.val.log))

\* serde_json::to_string(&Vec<Log>)
LogsJson(v) == [i \in DOMAIN v |-> LogJson(v[i])]

\* the list handler answering with what was collected before the cursor failed
ListResponse_partial(res) ==
  IF res.tag # "Ok" THEN res
  ELSE Response(LogsJson(res.val.items))

\* nightlog-list function_handler, after log_listing returned res
ListResponse(res) ==
  IF res.tag # "Ok" THEN res
  ELSE IF try_collect(res.val).tag = "Err" THEN Err
  ELSE Response(LogsJson(try_collect(res.val).val))

\* mongodb_connection: panics without configuration, fails on a bad endpoint
mongodb_connection(cell, fail) ==
  IF cell # "ready" THEN Panic ELSE IF fail = "connect" THEN Err ELSE Ok("client")

Fails == {"none", "connect", "store"}

\* nightlog-add function_handler: oid is what ObjectId::new() returns, now what
\* Utc::now() returns
AddHandler(req, oid, now, fail) ==
  /\ Idle
  /\ Cardinality(coll) < MaxDocs
  /\ init
  /\ LET client == mongodb_connection(lazy', fail)
     IN  IF client.tag # "Ok"
           THEN Record([op |-> "add", req |-> req, fail |-> fail, resp |-> client],
                       coll)
           ELSE LET log == Log_from_observation_request(req, oid, now)
                    r == Outcome(lazy', fail = "store", log_insertion(coll, log))
                IN  Record([op |-> "add", req |-> req, fail |-> fail, log |-> log,
                            res |-> r.res, resp |-> AddResponse(r.res)], r.coll)

\* nightlog-get function_handler
GetHandler(log_req, fail) ==
  /\ Idle
  /\ init
  /\ LET client == mongodb_connection(lazy', fail)
     IN  IF client.tag # "Ok"
           THEN Record([op |-> "get", req |-> log_req, fail |-> fail,
                        resp |-> client], coll)
           ELSE LET r == Outcome(lazy', fail = "store", log_retrieval(coll, log_req))
                IN  Record([op |-> "get", req |-> log_req, fail |-> fail, res |-> r.res,
                            resp |-> GetResponse(r.res)], r.coll)

\* nightlog-list function_handler
ListHandler(list_req, fail) ==
  /\ Idle
  /\ init
  /\ LET client == mongodb_connection(lazy', fail)
     IN  IF client.tag # "Ok"
           THEN Record([op |-> "list", req |-> list_req, fail |-> fail,
                        resp |-> client], coll)
           ELSE \E cursor \in log_listing(coll, list_req) :
                  LET r == Outcome(lazy', fail = "store",
                                   [coll |-> coll, res |-> Ok(cursor)])
                  IN  Record([op |-> "list", req |-> list_req, fail |-> fail, res |-> r.res,
                              resp |-> ListResponse(r.res)], r.coll)

\* the caller (the Lambda runtime, a test) takes the outcome; the next call may start
Respond ==
  /\ ~Idle
  /\ last' = [op |-> "none"]
  /\ prev' = coll
  /\ UNCHANGED <<coll, cfgvars>>

GetLogRequest == [log_id : Ids, user_id : Users]

DeleteLogRequest == [log_id : Ids, user_id : Users]

GetListRequest == [user_id : Users]

Threads == {"t1", "t2", "t3"}

Init ==
  /\ coll = {}
  /\ prev = {}
  /\ env \in SUBSET Settings
  /\ lazy = "uninit"
  /\ cfg = NoConfig
  /\ envReads = 0
  /\ last = [op |-> "none"]
  /\ pc = [t \in Threads |-> "start"]
  /\ seen = [t \in Threads |-> NoConfig]

\* the library calls and handler invocations of one caller, one after the other
Next ==
  \/ \E log \in Log, fail \in BOOLEAN :
       LogInsertion(log, fail) /\ UNCHANGED callers
  \/ \E q \in GetLogRequest, fail \in BOOLEAN :
       LogRetrieval(q, fail) /\ UNCHANGED callers
  \/ \E log \in Log, fail \in BOOLEAN :
       LogReplacement(log, fail) /\ UNCHANGED callers
  \/ \E q \in DeleteLogRequest, fail \in BOOLEAN :
       LogDeletion(q, fail) /\ UNCHANGED callers
  \/ \E q \in GetListRequest, fail \in BOOLEAN :
       LogListing(q, fail) /\ UNCHANGED callers
  \/ \E req \in ObservationRequest, oid \in Oids, now \in Times, fail \in Fails :
       AddHandler(req, oid, now, fail) /\ UNCHANGED callers
  \/ \E q \in GetLogRequest, fail \in Fails :
       GetHandler(q, fail) /\ UNCHANGED callers
  \/ \E q \in GetListRequest, fail \in Fails :
       ListHandler(q, fail) /\ UNCHANGED callers
  \/ \E req \in ObservationRequest, oid \in Oids, now \in Times :
       LogCreation(req, oid, now) /\ UNCHANGED callers
  \/ Respond /\ UNCHANGED callers

Spec == Init /\ [][Next]_vars

\* ------------------------------------------- concurrent first use of CONFIG
\* a cell that lets every caller that finds it empty run the closure
Claimed_unguarded(cell) == cell

\* OnceCell: the caller that finds the cell empty takes the initialization
Claimed(cell) == IF cell = "uninit" THEN "running" ELSE cell

\* Lazy::force by caller t: an initialized cell is read; an empty one is taken;
\* a cell being initialized is waited for; a poisoned one panics
Enter(t) ==
  /\ pc[t] = "start"
  /\ lazy' = Claimed(lazy)
  /\ pc' = [pc EXCEPT ![t] =
              CASE lazy = "uninit" -> "forcing"
                [] lazy = "running" -> "waiting"
                [] lazy = "ready" -> "loaded"
                [] lazy = "poisoned" -> "panicked"]
  /\ seen' = [seen EXCEPT ![t] = IF lazy = "ready" THEN cfg ELSE @]
  /\ UNCHANGED <<dbvars, env, cfg, envReads>>

\* the closure of CONFIG, run by the caller that took the initialization
RunClosure(t) ==
  /\ pc[t] = "forcing"
  /\ envReads' = envReads + 1
  /\ LET c == LoadConfig(env)
     IN  IF c.tag = "Ok"
           THEN /\ cfg' = c.val
                /\ lazy' = "ready"
                /\ pc' = [pc EXCEPT ![t] = "loaded"]
                /\ seen' = [seen EXCEPT ![t] = c.val]
           ELSE /\ lazy' = "poisoned"
                /\ pc' = [pc EXCEPT ![t] = "panicked"]
                /\ UNCHANGED <<cfg, seen>>
  /\ UNCHANGED <<dbvars, env>>

\* a caller blocked on the cell is woken when the initialization has ended
Wake(t) ==
  /\ pc[t] = "waiting"
  /\ lazy # "running"
  /\ pc' = [pc EXCEPT ![t] = "start"]
  /\ UNCHANGED <<dbvars, cfgvars, seen>>

\* a caller holding the configuration runs its invocation against the store
Operate(t) ==
  /\ pc[t] = "loaded"
  /\ \/ \E req \in ObservationRequest, oid \in Oids, now \in Times, fail \in Fails :
          AddHandler(req, oid, now, fail)
     \/ \E q \in GetLogRequest, fail \in Fails : GetHandler(q, fail)
  /\ pc' = [pc EXCEPT ![t] = "done"]
  /\ seen' = [seen EXCEPT ![t] = cfg']

Taken == Respond /\ UNCHANGED callers

NextConfig ==
  \/ \E t \in Threads : Enter(t)
  \/ \E t \in Threads : RunClosure(t)
  \/ \E t \in Threads : Wake(t)
  \/ \E t \in Threads : Operate(t)
  \/ Taken

SpecConfig == Init /\ [][NextConfig]_vars

\* ================================================================ claims
\* what a call answered by the store tells about its outcome
Served == "res" \in DOMAIN last /\ last.res.tag = "Ok"

IdOwner(q) == [_id |-> q.log_id, user_id |-> q.user_id]

LogKey(log) == [_id |-> log._id, user_id |-> log.user_id]

\* identifier i is stored, under an owner other than v
StoredUnderOther(c, i, v) == \E d \in c : d._id = i /\ d.user_id # v

\* the collection with no document of identifier i
Without(c, i) == {d \in c : d._id # i}

ObsFields == {"object_name", "object_location", "equipment", "eyepiece", "notes"}

NoCount == [matched_count |-> 0, modified_count |-> 0]

\* C1: with the identifier of a stored Log but another owner, retrieval
\* returns not-found, replacement and deletion return a zero count and change
\* nothing: the results the same calls give when the identifier is stored
\* nowhere; the call is an error only when the store could not be reached.
C1_OwnerIsolation ==
  /\ ( /\ last.op = "log_retrieval"
       /\ StoredUnderOther(prev, last.req.log_id, last.req.user_id) )
     => /\ last.res.tag = "Err" <=> last.fail
        /\ ~last.fail =>
             /\ last.res = Ok(None)
             /\ last.res = log_retrieval(Without(prev, last.req.log_id), last.req).res
        /\ coll = prev
  /\ ( /\ last.op = "log_replacement"
       /\ StoredUnderOther(prev, last.log._id, last.log.user_id) )
     => /\ last.res.tag = "Err" <=> last.fail
        /\ ~last.fail =>
             /\ last.res = Ok(NoCount)
             /\ last.res = log_replacement(Without(prev, last.log._id), last.log).res
        /\ coll = prev
  /\ ( /\ last.op = "log_deletion"
       /\ StoredUnderOther(prev, last.req.log_id, last.req.user_id) )
     => /\ last.res.tag = "Err" <=> last.fail
        /\ ~last.fail =>
             /\ last.res = Ok([deleted_count |-> 0])
             /\ last.res = log_deletion(Without(prev, last.req.log_id), last.req).res
        /\ coll = prev

\* a deletion with another owner's identifier was served and removed nothing
C1_Witness ==
  /\ last.op = "log_deletion"
  /\ StoredUnderOther(prev, last.req.log_id, last.req.user_id)
  /\ last.res = Ok([deleted_count |-> 0])
  /\ Cardinality(coll) = MaxDocs

Range(s) == {s[i] : i \in DOMAIN s}

\* C2: a listing for owner u that completes yields exactly the stored Logs
\* whose owner is u, each once, whatever the order they were inserted in.
C2_ListingExact ==
  (last.op = "log_listing" /\ last.list.tag = "Ok")
    => /\ Range(last.list.val) =
            {DocToLog(d) : d \in {e \in coll : e.user_id = last.req.user_id}}
       /\ Len(last.list.val) =
            Cardinality({e \in coll : e.user_id = last.req.user_id})
       /\ \A l \in Range(last.list.val) : l.user_id = last.req.user_id

\* two Logs of the owner were listed
C2_Witness ==
  /\ last.op = "log_listing"
  /\ last.list.tag = "Ok"
  /\ Len(last.list.val) = 2

\* a listing left out another owner's Log
C2_WitnessOther ==
  /\ last.op = "log_listing"
  /\ last.list.tag = "Ok"
  /\ Len(last.list.val) = 1
  /\ Cardinality(coll) = 2

\* the operation just performed is a replacement or deletion aimed at document d
Targets(d) ==
  \/ last.op = "log_replacement" /\ LogKey(last.log) = LogKey(d)
  \/ last.op = "log_deletion" /\ IdOwner(last.req) = LogKey(d)

\* C3: after log_insertion of a Log L built from a request returned identifier
\* i, retrieval by (i, L.user_id) returns a Log with L's owner and L's five
\* Observation fields; and the stored Log stays as it is under every operation
\* that is not a replacement or deletion on (i, L.user_id).
C3_RoundTrip ==
  /\ ( /\ last.op \in {"add", "log_insertion"}
       /\ Served
       /\ last.res.val # NoId )
     => LET got == log_retrieval(coll, [log_id |-> last.res.val,
                                        user_id |-> last.log.user_id]).res
        IN  /\ got.tag = "Ok"
            /\ got.val.tag = "Some"
            /\ got.val.log.user_id = last.log.user_id
            /\ \A f \in ObsFields :
                 got.val.log.observation[f] = last.log.observation[f]
  /\ \A d \in prev : ~Targets(d) => d \in coll

\* the add handler inserted a Log whose notes are empty and name is padded
C3_Witness ==
  /\ last.op = "add"
  /\ Served
  /\ last.log.observation.notes = ""
  /\ prev # {}

\* C4: log_deletion on a stored (identifier, owner) returns count 1 and the
\* pair is then not found; when nothing matches it returns count 0, is not an
\* error and leaves the collection unchanged.
C4_DeleteSemantics ==
  (last.op = "log_deletion" /\ ~last.fail /\ last.res.tag # "Panic")
    => IF Matching(prev, IdOwner(last.req)) # {}
         THEN /\ last.res = Ok([deleted_count |-> 1])
              /\ log_retrieval(coll, last.req).res = Ok(None)
              /\ Cardinality(coll) = Cardinality(prev) - 1
              /\ coll \subseteq prev
         ELSE /\ last.res = Ok([deleted_count |-> 0])
              /\ coll = prev

\* a stored Log was deleted by its owner
C4_Witness ==
  /\ last.op = "log_deletion"
  /\ last.res = Ok([deleted_count |-> 1])
  /\ coll # {}

\* a deletion matched nothing in a collection that holds documents
C4_WitnessNone ==
  /\ last.op = "log_deletion"
  /\ last.res = Ok([deleted_count |-> 0])
  /\ prev # {}

\* C5: log_replacement whose (identifier, owner) matches nothing returns a
\* zero modified count and leaves the collection exactly as it was.
C5_NoUpsert ==
  ( /\ last.op = "log_replacement"
    /\ ~last.fail
    /\ last.res.tag # "Panic"
    /\ Matching(prev, LogKey(last.log)) = {} )
    => /\ last.res.tag = "Ok"
       /\ last.res.val.modified_count = 0
       /\ coll = prev
       /\ Cardinality(coll) = Cardinality(prev)

\* a replacement of an identifier stored nowhere was served
C5_Witness ==
  /\ last.op = "log_replacement"
  /\ Served
  /\ \A d \in prev : d._id # last.log._id
  /\ prev # {}

\* log_replacement found a stored document with the Log's identifier and owner
ReplacedStored ==
  /\ last.op = "log_replacement"
  /\ ~last.fail
  /\ Matching(prev, LogKey(last.log)) # {}

\* what log_retrieval returns for the replaced pair after the replacement
AfterReplace == log_retrieval(coll, [log_id |-> last.log._id,
                                     user_id |-> last.log.user_id]).res

\* C6 as claimed: a replacement that matches returns count 1 and the Log then
\* retrieved has the owner, the Observation fields and the timestamp of R.
C6_AsClaimed ==
  (ReplacedStored /\ last.log._id # NoId)
    => /\ last.res.tag = "Ok"
       /\ last.res.val.modified_count = 1
       /\ AfterReplace.tag = "Ok"
       /\ AfterReplace.val.tag = "Some"
       /\ AfterReplace.val.log.user_id = last.log.user_id
       /\ AfterReplace.val.log.observation = last.log.observation
       /\ AfterReplace.val.log.date = last.log.date

\* C6, amended: a replacement that matches returns matched count 1, and
\* modified count 1 unless the stored document already equals R as serialized;
\* the Log then retrieved has R's owner and Observation fields and R's
\* timestamp cut to whole seconds, nothing of the original document is kept;
\* every count a replacement returns is 0 or 1.
C6_WholeDocumentReplace ==
  /\ ReplacedStored
       => /\ last.res.tag = "Ok"
          /\ last.res.val.matched_count = 1
          /\ last.res.val.modified_count =
               (IF LogToDoc(last.log) \in prev THEN 0 ELSE 1)
          /\ AfterReplace.tag = "Ok"
          /\ AfterReplace.val.tag = "Some"
          /\ AfterReplace.val.log._id = last.log._id
          /\ AfterReplace.val.log.user_id = last.log.user_id
          /\ \A f \in ObsFields :
               AfterReplace.val.log.observation[f] = last.log.observation[f]
          /\ AfterReplace.val.log.date = (last.log.date \div SubSec) * SubSec
          /\ coll = (prev \ Matching(prev, LogKey(last.log))) \cup {LogToDoc(last.log)}
  /\ (last.op = "log_replacement" /\ Served)
       => /\ last.res.val.matched_count \in {0, 1}
          /\ last.res.val.modified_count \in {0, 1}

\* a stored Log was replaced by one with another Observation and a timestamp
\* that is not a whole second
C6_Witness ==
  /\ ReplacedStored
  /\ last.res.val.modified_count = 1
  /\ last.log.date % SubSec # 0
  /\ \E d \in prev : /\ LogKey(d) = LogKey(last.log)
                     /\ d.observation # last.log.observation
                     /\ d.date # ts_seconds_serialize(last.log.date)

\* a replacement by a Log equal to the stored one was counted as matched only
C6_WitnessUnmodified ==
  /\ ReplacedStored
  /\ last.res.val.matched_count = 1
  /\ last.res.val.modified_count = 0

\* C7: Log::from_observation_request returns a Log that has an identifier,
\* the request's user_id as owner and the request's five Observation fields
\* unchanged.
C7_FromRequest ==
  (last.op \in {"create", "add"} /\ "log" \in DOMAIN last)
    => /\ last.log._id # NoId
       /\ last.log._id \in Oids
       /\ last.log.user_id = last.req.user_id
       /\ \A f \in ObsFields : last.log.observation[f] = last.req[f]
       /\ DOMAIN last.log.observation = ObsFields

\* a Log was built from a request with a padded name and empty notes
C7_Witness ==
  /\ last.op = "create"
  /\ last.req.object_name = " M1 "
  /\ last.req.notes = ""
  /\ last.log.observation.object_name = " M1 "

\* C8: a successful add invocation stores exactly one document, under an
\* identifier no stored document had, and returns that identifier in its 200
\* body; no two stored documents share an identifier; an insertion that does
\* not return an ObjectId ends the invocation in an error.
C8_AddOnceFresh ==
  /\ (last.op = "add" /\ last.resp.tag = "Ok")
       => /\ coll \ prev = {LogToDoc(last.log)}
          /\ prev \subseteq coll
          /\ Cardinality(coll) = Cardinality(prev) + 1
          /\ \A d \in prev : d._id # last.log._id
          /\ last.log._id \in Oids
          /\ last.resp.val.statusCode = 200
          /\ last.resp.val.body = ObjectIdJson(last.log._id)
          /\ \E d \in coll : ObjectIdJson(d._id) = last.resp.val.body
  /\ (last.op = "add" /\ last.resp.tag # "Ok") => coll = prev
  /\ (last.op = "add" /\ "res" \in DOMAIN last /\ (~Served \/ last.res.val = NoId))
       => last.resp.tag # "Ok"
  /\ \A d, e \in coll : d._id = e._id => d = e

\* an add invocation succeeded on a collection that already held a document
C8_Witness ==
  /\ last.op = "add"
  /\ last.resp.tag = "Ok"
  /\ prev # {}

\* an add invocation failed because its identifier was already stored
C8_WitnessDuplicate ==
  /\ last.op = "add"
  /\ last.fail = "none"
  /\ last.resp = Err
  /\ \E d \in prev : d._id = last.log._id

\* C9: log_retrieval answers not-found with an empty result, not an error,
\* exactly when no document matches identifier and owner; the get handler
\* returns a 200 envelope holding the Log when a document matches and an
\* invocation error otherwise, never a success envelope without the Log.
C9_NotFound ==
  /\ (last.op = "log_retrieval" /\ ~last.fail /\ last.res.tag # "Panic")
       => /\ last.res.tag = "Ok"
          /\ last.res.val = None <=> Matching(prev, IdOwner(last.req)) = {}
          /\ last.res.val # None =>
               LogToDoc(last.res.val.log) \in Matching(prev, IdOwner(last.req))
  /\ last.op = "get"
       => /\ last.resp.tag = "Ok" <=>
               /\ Matching(prev, IdOwner(last.req)) # {}
               /\ last.fail = "none"
               /\ lazy = "ready"
          /\ last.resp.tag = "Ok" =>
               /\ last.resp.val.statusCode = 200
               /\ \E d \in Matching(prev, IdOwner(last.req)) :
                    last.resp.val.body = LogJson(DocToLog(d))
          /\ (last.resp.tag # "Ok" /\ lazy = "ready") => last.resp = Err
          /\ coll = prev

\* the get handler turned a served not-found into an invocation error
C9_Witness ==
  /\ last.op = "get"
  /\ Served
  /\ last.res.val = None
  /\ last.resp = Err
  /\ prev # {}

\* the get handler returned a stored Log in a 200 envelope
C9_WitnessFound ==
  /\ last.op = "get"
  /\ last.resp.tag = "Ok"
  /\ last.resp.val.body.user_id = last.req.user_id

\* C10: however concurrent callers interleave, the CONFIG closure reads the
\* environment at most once, every caller that got the configuration got the
\* same complete values, which are still the cell's, and when a setting is
\* missing every caller panics and nothing is done on the database.
C10_InitOnce ==
  /\ envReads <= 1
  /\ Cardinality({t \in Threads : pc[t] = "forcing"}) <= 1
  /\ \A t \in Threads : pc[t] \in {"loaded", "done"} =>
       /\ lazy = "ready"
       /\ seen[t] = cfg
       /\ \A s \in Settings : seen[t][s] = EnvValue(s)
       /\ Settings \subseteq env
  /\ lazy = "ready" <=> cfg # NoConfig
  /\ cfg # NoConfig => cfg = [s \in Settings |-> EnvValue(s)]
  /\ ~(Settings \subseteq env) =>
       /\ coll = {}
       /\ last.op = "none"
       /\ \A t \in Threads : pc[t] \notin {"loaded", "done"}
       /\ lazy \in {"uninit", "running", "poisoned"}

\* two callers ran their invocations on the configuration one of them loaded
C10_Witness ==
  /\ envReads = 1
  /\ \E t, u \in Threads : t # u /\ pc[t] = "done" /\ pc[u] = "done"
  /\ coll # {}

\* a setting was missing: one caller panicked in the closure, another on the
\* poisoned cell
C10_WitnessMissing ==
  /\ lazy = "poisoned"
  /\ envReads = 1
  /\ \E t, u \in Threads : t # u /\ pc[t] = "panicked" /\ pc[u] = "panicked"

\* a caller waited while another one was running the closure
C10_WitnessRace ==
  \E t, u \in Threads : pc[t] = "forcing" /\ pc[u] = "waiting"

\* the list handler got a cursor from log_listing
ListedCursor == last.op = "list" /\ Served

\* the Logs of the listing's owner as the store holds them, as JSON
OwnedJson == {LogJson(DocToLog(d)) : d \in {e \in coll : e.user_id = last.req.user_id}}

\* C11: the list handler ends in an error whenever the cursor fails while it is
\* consumed, however many Logs it had yielded; it returns a 200 envelope only
\* when the whole cursor was consumed without failure, and the body then holds
\* every Log of the sequence, each once.
C11_NoPartialListing ==
  /\ (ListedCursor /\ last.res.val.err) => last.resp = Err
  /\ (last.op = "list" /\ last.resp.tag = "Ok")
       => /\ ListedCursor
          /\ ~last.res.val.err
          /\ last.fail = "none"
          /\ last.resp.val.statusCode = 200
          /\ last.resp.val.body = LogsJson(last.res.val.items)
          /\ Len(last.resp.val.body) = Len(last.res.val.items)
          /\ Range(last.resp.val.body) = OwnedJson
          /\ Len(last.resp.val.body) = Cardinality(OwnedJson)
  /\ (ListedCursor /\ ~last.res.val.err) => last.resp.tag = "Ok"
  /\ last.op = "list" => coll = prev

\* the cursor failed after it had yielded one of the owner's two Logs, and the
\* invocation ended in an error
C11_Witness ==
  /\ ListedCursor
  /\ last.res.val.err
  /\ Len(last.res.val.items) = 1
  /\ Cardinality(OwnedJson) = 2
  /\ last.resp = Err

\* a whole listing of two Logs was returned in a 200 envelope
C11_WitnessWhole ==
  /\ last.op = "list"
  /\ last.resp.tag = "Ok"
  /\ Len(last.resp.val.body) = 2

\* the owner in whose scope the last operation wrote
WriteOwner ==
  IF last.op = "log_replacement" THEN last.log.user_id ELSE last.req.user_id

\* C12: log_replacement and log_deletion called for owner u leave every
\* stored document of another owner as it is and add none; log_insertion
\* leaves every stored document as it is; no operation gives a stored
\* identifier another owner, and a replacement keeps the stored (identifier,
\* owner) pairs exactly.
C12_WritesConfined ==
  /\ last.op \in {"log_replacement", "log_deletion"}
       => {d \in coll : d.user_id # WriteOwner} = {d \in prev : d.user_id # WriteOwner}
  /\ last.op \in {"log_insertion", "add"} => prev \subseteq coll
  /\ \A d \in prev : \A e \in coll : e._id = d._id => e.user_id = d.user_id
  /\ last.op = "log_replacement"
       => {LogKey(d) : d \in coll} = {LogKey(d) : d \in prev}
  /\ last.op \notin {"log_replacement", "log_deletion", "log_insertion", "add"}
       => coll = prev

\* an owner replaced a Log while another owner's Log was stored and stayed
C12_Witness ==
  /\ last.op = "log_replacement"
  /\ Served
  /\ last.res.val.modified_count = 1
  /\ \E d \in prev : d.user_id # last.log.user_id /\ d \in coll

\* an owner deleted a Log while another owner's Log was stored and stayed
C12_WitnessDelete ==
  /\ last.op = "log_deletion"
  /\ last.res = Ok([deleted_count |-> 1])
  /\ \E d \in prev : d.user_id # last.req.user_id /\ d \in coll

====
